---- MODULE Spec2Model ----
(***************************************************************************)
(* Model of docker_entrypoint.py: the timelapse job (job, get_video_path,  *)
(* create_timelapse, YouTubeUploader) and the entry point main with its    *)
(* run-once and daemon modes.  One process, one thread.  Everything the    *)
(* program reads from outside (existence of a batch directory, directory   *)
(* listings, exit statuses of ffmpeg, the outcome of an upload) is chosen  *)
(* nondeterministically at the step that reads it.  The clock counts       *)
(* hours; one pass of the polling loop is one clock unit.                  *)
(***************************************************************************)
EXTENDS Integers, Sequences, FiniteSets, TLC

\* ---------------------------------------------------------------- bounds
NumDirs == 2
MaxFiles == 2
MaxClock == 40

\* ------------------------------------------------------- python constants
None == "None"
True == "True"
False == "False"

Truthy(x) == x = True

Dirs == 1..NumDirs

\* ------------------------------------------------------------ file names
\* File names are sequences of code points.
\* "10.mp4", "9.mp4", "9-.mp4", "9.mp4.part"
FileNames ==
    { <<49, 48, 46, 109, 112, 52>>,
      <<57, 46, 109, 112, 52>>,
      <<57, 45, 46, 109, 112, 52>>,
      <<57, 46, 109, 112, 52, 46, 112, 97, 114, 116>> }

\* ".mp4"
Mp4Suffix == <<46, 109, 112, 52>>

\* os.listdir: distinct names in arbitrary order
Listings ==
    UNION { { s \in [1..n -> FileNames] :
                \A a, b \in 1..n : a # b => s[a] # s[b] } : n \in 0..MaxFiles }

endswith(s, suffix) ==
    /\ Len(s) >= Len(suffix)
    /\ SubSeq(s, Len(s) - Len(suffix) + 1, Len(s)) = suffix

\* str.__lt__: comparison by code point, a proper prefix is smaller
RECURSIVE StrLess(_, _)
StrLess(s, t) ==
    IF s = <<>> THEN t # <<>>
    ELSE IF t = <<>> THEN FALSE
    ELSE IF Head(s) = Head(t) THEN StrLess(Tail(s), Tail(t))
    ELSE Head(s) < Head(t)

RECURSIVE InsertSorted(_, _)
InsertSorted(x, s) ==
    IF s = <<>> THEN <<x>>
    ELSE IF StrLess(Head(s), x) THEN <<Head(s)>> \o InsertSorted(x, Tail(s))
    ELSE <<x>> \o s

\* mutant of sorted: the listing order is kept
unsorted(s) == s

RECURSIVE sorted(_)
sorted(s) ==
    IF s = <<>> THEN <<>> ELSE InsertSorted(Head(s), sorted(Tail(s)))

IsClip(f) == endswith(f, Mp4Suffix)

\* sorted(f for f in os.listdir(input_dir) if f.endswith('.mp4'))
ClipNames(listing) == sorted(SelectSeq(listing, IsClip))

\* ----------------------------------------------------------------- clock
HoursPerDay == 24
BatchShift == 6
Noon == 12
AtTimes == <<1, 13>>
StartClocks == {HoursPerDay, HoursPerDay + Noon}

Hour(t) == t % HoursPerDay
Day(t) == t \div HoursPerDay

\* dt.strftime('%Y%m%d%p')
strftime(dt) == <<Day(dt), IF Hour(dt) < Noon THEN "AM" ELSE "PM">>

\* mutant of get_video_path: the existence check is missing
get_video_path_nocheck(parent_dir, now, exists) ==
    [exc |-> None, path |-> <<parent_dir>> \o strftime(now - BatchShift)]

get_video_path(parent_dir, now, exists) ==
    LET dt == now - BatchShift
        dir_path == <<parent_dir>> \o strftime(dt)
    IN  IF ~exists
        THEN [exc |-> "FileNotFoundError", path |-> <<>>]
        ELSE [exc |-> None, path |-> dir_path]

\* ------------------------------------------------------------- arguments
Flags == {"--now", "--upload", "--output", "--tmp-path"}

\* argparse: store_true options default to False, the others to None
parse_args(given) ==
    [ now      |-> IF "--now" \in given THEN True ELSE False,
      upload   |-> IF "--upload" \in given THEN True ELSE False,
      output   |-> IF "--output" \in given THEN "/output" ELSE None,
      tmp_path |-> IF "--tmp-path" \in given THEN "/tmp" ELSE None ]

\* --------------------------------------------------------------- helpers
check_call(status) == IF status = 0 THEN None ELSE "CalledProcessError"

output_dir_context(path) ==
    IF path # None THEN "nullcontext" ELSE "TemporaryDirectory"

\* mutant of img_dir_exit: the directory is removed on the normal path only
img_dir_exit_leak(exists, exc) == exists /\ exc

\* with TemporaryDirectory(...) as img_dir: existence after the block
img_dir_exit(exists, exc) == FALSE

\* mutant of output_dir_exit: a disposable directory survives an exception
output_dir_exit_leak(ctx, exists, exc) ==
    IF ctx = "TemporaryDirectory" THEN exists /\ exc ELSE exists

\* with output_dir_context(...) as output_dir: existence after the block
output_dir_exit(ctx, exists, exc) ==
    IF ctx = "TemporaryDirectory" THEN FALSE ELSE exists

ExceptionSubclasses ==
    {"FileNotFoundError", "CalledProcessError", "KeyError", "UploadError",
     "RuntimeError"}

\* mutant of except_Exception: only errors of the upload call are caught
except_UploadError(e) == e = "UploadError"

\* except Exception as e
except_Exception(e) == e \in ExceptionSubclasses

\* except FileNotFoundError as e
except_FileNotFoundError(e) == e = "FileNotFoundError"

\* _YouTubeUploader.__init__: the two files after the body ran or raised.
\* open('wb') creates or truncates the file before the environment is read.
uploader_init(environ, files) ==
    IF ~environ.SECRETS_JSON
    THEN [exc |-> "KeyError",
          files |-> [files EXCEPT !.secrets = "empty"]]
    ELSE IF ~environ.CREDENTIALS_JSON
    THEN [exc |-> "KeyError",
          files |-> [secrets |-> "written", credentials |-> "empty"]]
    ELSE [exc |-> None,
          files |-> [secrets |-> "written", credentials |-> "written"]]

\* schedule.every().day.at(t).do(job): the first run is today if t is
\* still ahead, else tomorrow
first_run(now, at) ==
    IF at > Hour(now) THEN Day(now) * HoursPerDay + at
    ELSE (Day(now) + 1) * HoursPerDay + at

\* after a run: one day ahead, at the configured time
following_run(now, at) == (Day(now) + 1) * HoursPerDay + at

VARIABLES
    given,          \* options on the command line
    environ,        \* which of SECRETS_JSON, CREDENTIALS_JSON are set
    clock,          \* wall clock, in hours
    pc,             \* position of main
    jpc,            \* position of job
    i,              \* index of the directory being processed
    video_dir,      \* batch directory found for it
    out_ctx,        \* context manager of the output directory
    tmpDirExists,   \* args.tmp_path exists
    outDirExists,   \* args.output exists
    outTmp,         \* the disposable output directory exists
    imgDir,         \* the scratch directory of create_timelapse exists
    listing,        \* what os.listdir returned
    file_names,     \* sorted clip names
    k,              \* index of the next clip
    obj,            \* YouTubeUploader.obj is not None
    fs,             \* secrets.json and credentials.json
    next_run,       \* next_run of the two scheduled jobs
    cur,            \* scheduled job being run
    raised,         \* exception that left job() or main()
    \* history
    attempted,      \* directories get_video_path was called for
    missing,        \* directories whose batch does not exist
    warned,         \* directories a warning was logged for
    transcoded,     \* directories create_timelapse was called for
    uploaderFor,    \* directories YouTubeUploader() was called for
    uploadFailed,   \* directories whose upload step raised
    errorLogged,    \* directories an upload error was logged for
    calls,          \* ffmpeg invocations of the current create_timelapse
    initRuns,       \* executions of _YouTubeUploader.__init__
    lastCtor,       \* the last call of YouTubeUploader()
    fired,          \* firing times job() was started for
    registered_at   \* clock when the jobs were registered, -1 before

vars == <<given, environ, clock, pc, jpc, i, video_dir, out_ctx,
          tmpDirExists, outDirExists, outTmp, imgDir, listing, file_names,
          k, obj, fs, next_run, cur, raised, attempted, missing, warned,
          transcoded, uploaderFor, uploadFailed, errorLogged, calls,
          initRuns, lastCtor, fired, registered_at>>

config == <<given, environ>>
dirstate == <<tmpDirExists, outDirExists, outTmp, imgDir>>
ctstate == <<listing, file_names, k, calls>>
upstate == <<obj, fs, initRuns, lastCtor>>
uphist == <<uploaderFor, uploadFailed, errorLogged>>
lochist == <<attempted, missing, warned>>
sched == <<next_run, cur, fired, registered_at>>

args == parse_args(given)

Init ==
    /\ given \in SUBSET Flags
    /\ environ \in [SECRETS_JSON : BOOLEAN, CREDENTIALS_JSON : BOOLEAN]
    /\ clock \in StartClocks
    /\ pc = "main"
    /\ jpc = "idle"
    /\ i = 0
    /\ video_dir = <<>>
    /\ out_ctx = None
    /\ tmpDirExists = FALSE
    /\ outDirExists = FALSE
    /\ outTmp = FALSE
    /\ imgDir = FALSE
    /\ listing = <<>>
    /\ file_names = <<>>
    /\ k = 0
    /\ obj = FALSE
    /\ fs = [secrets |-> "absent", credentials |-> "absent"]
    /\ next_run = <<0, 0>>
    /\ cur = 0
    /\ raised = None
    /\ attempted = {}
    /\ missing = {}
    /\ warned = {}
    /\ transcoded = {}
    /\ uploaderFor = {}
    /\ uploadFailed = {}
    /\ errorLogged = {}
    /\ calls = <<>>
    /\ initRuns = 0
    /\ lastCtor = [called |-> FALSE, exc |-> None,
                   before |-> [secrets |-> "absent", credentials |-> "absent"]]
    /\ fired = <<>>
    /\ registered_at = -1

\* ------------------------------------------------------------------ main
\* lines 151-153: the start-up validation
MainValidate ==
    /\ pc = "main"
    /\ IF args.upload = None /\ args.output = None
       THEN /\ pc' = "crashed"
            /\ raised' = "RuntimeError"
       ELSE /\ pc' = "makedirs"
            /\ UNCHANGED raised
    /\ UNCHANGED <<config, clock, jpc, i, video_dir, out_ctx, dirstate,
                   ctstate, upstate, uphist, lochist, transcoded, sched>>

\* lines 155-158: os.makedirs(..., exist_ok=True)
MainMakedirs ==
    /\ pc = "makedirs"
    /\ tmpDirExists' = (tmpDirExists \/ args.tmp_path # None)
    /\ outDirExists' = (outDirExists \/ args.output # None)
    /\ pc' = "dispatch"
    /\ UNCHANGED <<config, clock, jpc, i, video_dir, out_ctx, outTmp, imgDir,
                   ctstate, upstate, uphist, lochist, transcoded, sched,
                   raised>>

\* lines 124-129: job() starts, the loop is at the first directory
JobBegin ==
    /\ jpc' = "for"
    /\ i' = 1
    /\ attempted' = {}
    /\ missing' = {}
    /\ warned' = {}
    /\ transcoded' = {}
    /\ uploaderFor' = {}
    /\ uploadFailed' = {}
    /\ errorLogged' = {}
    /\ calls' = <<>>

\* lines 160-161: --now, job() is called once
MainRunNow ==
    /\ pc = "dispatch"
    /\ Truthy(args.now)
    /\ pc' = "job"
    /\ JobBegin
    /\ UNCHANGED <<config, clock, video_dir, out_ctx, dirstate, listing,
                   file_names, k, upstate, sched, raised>>

\* lines 164-165: the two daily jobs are registered
MainRegister ==
    /\ pc = "dispatch"
    /\ ~Truthy(args.now)
    /\ next_run' = [j \in 1..2 |-> first_run(clock, AtTimes[j])]
    /\ registered_at' = clock
    /\ pc' = "run_pending"
    /\ UNCHANGED <<config, clock, jpc, i, video_dir, out_ctx, dirstate,
                   ctstate, upstate, uphist, lochist, transcoded, cur, fired,
                   raised>>

\* line 167: schedule.run_pending() runs the due jobs, earliest first
RunPending ==
    /\ pc = "run_pending"
    /\ LET runnable == {j \in 1..2 : clock >= next_run[j]}
       IN  IF runnable = {}
           THEN /\ pc' = "sleep"
                /\ UNCHANGED <<jpc, i, uphist, lochist, transcoded, calls,
                               cur, fired>>
           ELSE LET j == CHOOSE a \in runnable :
                             \A b \in runnable : next_run[a] <= next_run[b]
                IN  /\ cur' = j
                    /\ fired' = Append(fired, next_run[j])
                    /\ pc' = "job"
                    /\ JobBegin
    /\ UNCHANGED <<config, clock, video_dir, out_ctx, dirstate, listing,
                   file_names, k, upstate, next_run, registered_at, raised>>

\* line 168: sleep(1).  Time passes while the process sleeps, and it keeps
\* passing once the process is gone.
Sleep ==
    /\ pc \in {"sleep", "crashed"}
    /\ ~Truthy(args.now)
    /\ registered_at >= 0
    /\ clock < MaxClock
    /\ clock' = clock + 1
    /\ pc' = IF pc = "sleep" THEN "run_pending" ELSE pc
    /\ UNCHANGED <<config, jpc, i, video_dir, out_ctx, dirstate, ctstate,
                   upstate, uphist, lochist, transcoded, sched, raised>>

\* ------------------------------------------------------------------- job
NextDirectory ==
    /\ i' = i + 1
    /\ jpc' = IF i + 1 > NumDirs THEN "return" ELSE "for"

\* leaving the with block of line 136
LeaveOutput(exc) ==
    /\ out_ctx' = None
    /\ IF out_ctx = "TemporaryDirectory"
       THEN /\ outTmp' = output_dir_exit(out_ctx, outTmp, exc)
            /\ UNCHANGED outDirExists
       ELSE /\ outDirExists' = output_dir_exit(out_ctx, outDirExists, exc)
            /\ UNCHANGED outTmp

\* lines 129-134: get_video_path(d), a missing batch is logged and skipped
JobGetVideoPath ==
    /\ jpc = "for"
    /\ \E exists \in BOOLEAN :
         LET r == get_video_path(i, clock, exists)
         IN  /\ attempted' = attempted \cup {i}
             /\ missing' = IF exists THEN missing ELSE missing \cup {i}
             /\ IF r.exc = None
                THEN /\ video_dir' = r.path
                     /\ jpc' = "with_output"
                     /\ UNCHANGED <<i, warned, raised>>
                ELSE IF except_FileNotFoundError(r.exc)
                THEN /\ warned' = warned \cup {i}
                     /\ NextDirectory
                     /\ UNCHANGED <<video_dir, raised>>
                ELSE /\ jpc' = "raise"
                     /\ raised' = r.exc
                     /\ UNCHANGED <<i, video_dir, warned>>
    /\ UNCHANGED <<config, clock, pc, out_ctx, dirstate, ctstate, upstate,
                   uphist, transcoded, sched>>

\* lines 135-138: the output location is acquired
JobEnterOutput ==
    /\ jpc = "with_output"
    /\ out_ctx' = output_dir_context(args.output)
    /\ outTmp' = (out_ctx' = "TemporaryDirectory")
    /\ jpc' = "create_timelapse"
    /\ UNCHANGED <<config, clock, pc, i, video_dir, tmpDirExists,
                   outDirExists, imgDir, ctstate, upstate, uphist, lochist,
                   transcoded, sched, raised>>

\* lines 42-44: the scratch directory is created, the clips are listed
CtEnter ==
    /\ jpc = "create_timelapse"
    /\ transcoded' = transcoded \cup {i}
    /\ imgDir' = TRUE
    /\ \E l \in Listings :
         /\ listing' = l
         /\ file_names' = ClipNames(l)
    /\ k' = 1
    /\ calls' = <<>>
    /\ jpc' = "ct_loop"
    /\ UNCHANGED <<config, clock, pc, i, video_dir, out_ctx, tmpDirExists,
                   outDirExists, outTmp, upstate, uphist, lochist, sched,
                   raised>>

\* an exception leaves create_timelapse and the with block of job
CtRaise(e) ==
    /\ imgDir' = img_dir_exit(imgDir, TRUE)
    /\ LeaveOutput(TRUE)
    /\ jpc' = "raise"
    /\ raised' = e

\* lines 45-58: one frame-sampling invocation
CtSample ==
    /\ jpc = "ct_loop"
    /\ k <= Len(file_names)
    /\ \E status \in {0, 1} :
         /\ calls' = Append(calls, [kind |-> "sample", file |-> file_names[k],
                                    status |-> status])
         /\ IF check_call(status) = None
            THEN /\ k' = k + 1
                 /\ UNCHANGED <<jpc, raised, out_ctx, outTmp, outDirExists,
                                imgDir>>
            ELSE /\ CtRaise(check_call(status))
                 /\ UNCHANGED k
    /\ UNCHANGED <<config, clock, pc, i, video_dir, tmpDirExists, listing,
                   file_names, upstate, uphist, lochist, transcoded, sched>>

\* lines 59-71 and 140: the assembly invocation, then back in job
CtAssemble ==
    /\ jpc = "ct_loop"
    /\ k > Len(file_names)
    /\ \E status \in {0, 1} :
         /\ calls' = Append(calls, [kind |-> "assemble", file |-> <<>>,
                                    status |-> status])
         /\ IF check_call(status) = None
            THEN /\ imgDir' = img_dir_exit(imgDir, FALSE)
                 /\ IF Truthy(args.upload)
                    THEN /\ jpc' = "upload"
                         /\ UNCHANGED <<i, out_ctx, outTmp, outDirExists>>
                    ELSE /\ LeaveOutput(FALSE)
                         /\ NextDirectory
                 /\ UNCHANGED raised
            ELSE /\ CtRaise(check_call(status))
                 /\ UNCHANGED i
    /\ UNCHANGED <<config, clock, pc, video_dir, tmpDirExists, listing,
                   file_names, k, upstate, uphist, lochist, transcoded,
                   sched>>

\* lines 141-145: the outcome e of the upload step meets the handler
UploadOutcome(e) ==
    IF e = None
    THEN /\ LeaveOutput(FALSE)
         /\ NextDirectory
         /\ UNCHANGED <<uploadFailed, errorLogged, raised>>
    ELSE IF except_Exception(e)
    THEN /\ uploadFailed' = uploadFailed \cup {i}
         /\ errorLogged' = errorLogged \cup {i}
         /\ LeaveOutput(FALSE)
         /\ NextDirectory
         /\ UNCHANGED raised
    ELSE /\ uploadFailed' = uploadFailed \cup {i}
         /\ LeaveOutput(TRUE)
         /\ jpc' = "raise"
         /\ raised' = e
         /\ UNCHANGED <<i, errorLogged>>

\* line 142, lines 107-110 and 77-88: YouTubeUploader().  __new__ keeps one
\* object; __init__ runs on every call because __new__ returns an instance
\* of the class.
UploaderConstruct ==
    /\ jpc = "upload"
    /\ LET r == uploader_init(environ, fs)
       IN  /\ obj' = TRUE
           /\ initRuns' = initRuns + 1
           /\ fs' = r.files
           /\ lastCtor' = [called |-> TRUE, exc |-> r.exc, before |-> fs]
           /\ uploaderFor' = uploaderFor \cup {i}
           /\ IF r.exc = None
              THEN /\ jpc' = "upload_call"
                   /\ UNCHANGED <<i, out_ctx, outTmp, outDirExists,
                                  uploadFailed, errorLogged, raised>>
              ELSE UploadOutcome(r.exc)
    /\ UNCHANGED <<config, clock, pc, video_dir, tmpDirExists, imgDir,
                   ctstate, lochist, transcoded, sched>>

\* lines 142-145 and 90-101: upload(output_path)
UploadCall ==
    /\ jpc = "upload_call"
    /\ \E e \in {None, "UploadError"} : UploadOutcome(e)
    /\ UNCHANGED <<config, clock, pc, video_dir, tmpDirExists, imgDir,
                   ctstate, upstate, uploaderFor, lochist, transcoded,
                   sched>>

\* job() returns: main returns (line 162), or the scheduler moves the job
\* to the next day and goes on with run_pending
JobReturn ==
    /\ jpc = "return"
    /\ jpc' = "idle"
    /\ IF Truthy(args.now)
       THEN /\ pc' = "exited"
            /\ UNCHANGED next_run
       ELSE /\ pc' = "run_pending"
            /\ next_run' = [next_run EXCEPT
                              ![cur] = following_run(clock, AtTimes[cur])]
    /\ UNCHANGED <<config, clock, i, video_dir, out_ctx, dirstate, ctstate,
                   upstate, uphist, lochist, transcoded, cur, fired,
                   registered_at, raised>>

\* an exception leaves job(): neither run_pending nor main catches it
JobRaise ==
    /\ jpc = "raise"
    /\ jpc' = "idle"
    /\ pc' = "crashed"
    /\ UNCHANGED <<config, clock, i, video_dir, out_ctx, dirstate, ctstate,
                   upstate, uphist, lochist, transcoded, sched, raised>>

Next ==
    \/ MainValidate
    \/ MainMakedirs
    \/ MainRunNow
    \/ MainRegister
    \/ RunPending
    \/ Sleep
    \/ JobGetVideoPath
    \/ JobEnterOutput
    \/ CtEnter
    \/ CtSample
    \/ CtAssemble
    \/ UploaderConstruct
    \/ UploadCall
    \/ JobReturn
    \/ JobRaise

Spec == Init /\ [][Next]_vars

TypeOK ==
    /\ pc \in {"main", "makedirs", "dispatch", "run_pending", "sleep", "job",
               "exited", "crashed"}
    /\ jpc \in {"idle", "for", "with_output", "create_timelapse", "ct_loop",
                "upload", "upload_call", "return", "raise"}

\* ---------------------------------------------------------------- claims
Last(s) == s[Len(s)]

InTimelapse == jpc = "ct_loop"
InUpload == jpc \in {"upload", "upload_call"}
JobEnded == jpc \in {"return", "raise"}

\* C1: when an execution of job() ends, by return or by an exception,
\* get_video_path has been called for every configured directory.
C1_EveryDirectoryAttempted == JobEnded => attempted = Dirs

\* C2: started with neither --upload nor --output, main fails at once with
\* the configuration error: no directory is created, job() does not run and
\* nothing is registered; with one of the two given the error is not raised.
C2_StartupValidation ==
    /\ ("--upload" \notin given /\ "--output" \notin given)
         => /\ pc \in {"main", "crashed"}
            /\ pc = "crashed" => raised = "RuntimeError"
            /\ ~tmpDirExists /\ ~outDirExists
            /\ jpc = "idle" /\ registered_at < 0
    /\ ("--upload" \in given \/ "--output" \in given)
         => raised # "RuntimeError"

\* C3: the body of the constructor of the Upload Client, which writes the
\* credential files, runs at most once in a process.
C3_ConstructedOnce == initRuns <= 1

\* C4: a call of YouTubeUploader() with SECRETS_JSON or CREDENTIALS_JSON
\* absent fails and leaves secrets.json and credentials.json as they were.
C4_NoFilesWithoutEnvironment ==
    (lastCtor.called /\ ~(environ.SECRETS_JSON /\ environ.CREDENTIALS_JSON))
        => /\ lastCtor.exc # None
           /\ fs = lastCtor.before

\* C5: the scratch directory of create_timelapse exists while the
\* invocations run and does not exist once create_timelapse has ended,
\* whether it returned or an invocation failed.
C5_ScratchRemoved ==
    /\ InTimelapse => imgDir
    /\ ~InTimelapse => ~imgDir

C5_Witness ==
    /\ jpc = "raise"
    /\ Len(calls) >= 2
    /\ Last(calls).kind = "sample"
    /\ Last(calls).status # 0
    /\ ~imgDir

\* C6: a directory whose batch is missing gets a warning, and neither
\* create_timelapse nor the uploader is invoked for it; when job() returns,
\* create_timelapse has been run for every directory whose batch exists.
C6_MissingBatchSkipped ==
    /\ missing \subseteq warned
    /\ missing \cap transcoded = {}
    /\ missing \cap uploaderFor = {}
    /\ jpc = "return" => \A d \in Dirs \ missing : d \in transcoded

C6_Witness ==
    /\ jpc = "return"
    /\ 1 \in missing
    /\ 1 \in warned
    /\ 2 \in transcoded

\* C7: an error of the upload step, the construction of the Upload Client
\* included, is logged and never leaves job(): the next directory is
\* processed and the process does not die of it.
C7_UploadErrorsCaught ==
    /\ raised \notin {"KeyError", "UploadError"}
    /\ uploadFailed \subseteq errorLogged
    /\ \A d \in uploadFailed :
         d < NumDirs => (d + 1 \in attempted \/ (jpc = "for" /\ i = d + 1))

C7_Witness ==
    /\ lastCtor.exc = "KeyError"
    /\ 1 \in uploadFailed
    /\ 1 \in errorLogged
    /\ 2 \in attempted

FiringTimes == {t \in 0..MaxClock : \E j \in 1..2 : Hour(t) = AtTimes[j]}

TimesFired(f) == Cardinality({a \in 1..Len(fired) : fired[a] = f})

\* C8: in daemon mode every firing time that has passed since the jobs
\* were registered started job() exactly once, never before its time and
\* never twice.
C8_OneRunPerFiringTime ==
    registered_at >= 0 =>
        /\ \A f \in FiringTimes :
             (f > registered_at /\ f < clock) => TimesFired(f) = 1
        /\ \A a \in 1..Len(fired) :
             fired[a] \in FiringTimes /\ fired[a] <= clock
        /\ \A f \in FiringTimes : TimesFired(f) <= 1

Ascending(s) == \A a \in 1..(Len(s) - 1) : StrLess(s[a], s[a + 1])

\* C9: the invocations of one create_timelapse are the sampling of the
\* clips of the listing, one each in lexicographic order, then at most one
\* assembly after all of them; every invocation but the last one exited
\* with zero, and a non-zero exit ends the call with the error.
C9_InvocationOrder ==
    LET n == Len(file_names)
        m == Len(calls)
    IN  /\ Ascending(file_names)
        /\ {file_names[a] : a \in 1..n}
             = {listing[a] : a \in {b \in 1..Len(listing) : IsClip(listing[b])}}
        /\ m <= n + 1
        /\ \A a \in 1..m :
             /\ a <= n => (calls[a].kind = "sample"
                           /\ calls[a].file = file_names[a])
             /\ a = n + 1 => calls[a].kind = "assemble"
             /\ a < m => calls[a].status = 0
        /\ (m >= 1 /\ Last(calls).status # 0)
             => (jpc = "raise" \/ pc = "crashed")
        /\ InTimelapse => m = k - 1
        /\ InUpload => (m = n + 1 /\ Last(calls).status = 0)

C9_Witness ==
    /\ Len(listing) = 2
    /\ IsClip(listing[1]) /\ IsClip(listing[2])
    /\ StrLess(listing[2], listing[1])
    /\ Len(calls) = 3
    /\ Last(calls).kind = "assemble"
    /\ Last(calls).status = 0

\* C10: without --output the disposable output directory exists from the
\* start of create_timelapse to the end of the upload, the upload starts
\* only after a successful assembly, and the directory is gone whenever
\* job() is between directories or has ended; with --output the output
\* directory is never removed.
C10_OutputLifetime ==
    /\ (args.output = None
        /\ jpc \in {"create_timelapse", "ct_loop", "upload", "upload_call"})
         => outTmp
    /\ InUpload => /\ calls # <<>>
                   /\ Last(calls).kind = "assemble"
                   /\ Last(calls).status = 0
    /\ jpc \in {"idle", "for", "with_output", "return", "raise"} => ~outTmp
    /\ (args.output # None /\ pc \notin {"main", "makedirs"})
         => (outDirExists /\ ~outTmp)

C10_Witness ==
    /\ args.output = None
    /\ Truthy(args.upload)
    /\ jpc = "raise"
    /\ raised = "CalledProcessError"
    /\ i = 2
    /\ 1 \in uploadFailed
    /\ ~outTmp

====
